---- MODULE Spec2Model ----
(***************************************************************************)
(* ccth: Claude Code hook events relayed into per-session Slack threads.   *)
(*                                                                         *)
(* The model follows the source: one invocation reads one hook event,      *)
(* resolves the session's thread through the file store                    *)
(* (getOrCreateThread), posts the event message and, for Stop events,      *)
(* the latest assistant response of the transcript (processHookInput).     *)
(* getOrCreateThread, deleteSession and sendUnsentAssistantMessages, the   *)
(* transcript drain filtered by the sent-messages set, are modelled as     *)
(* the operations the modules export.  Every await of the code is a step.  *)
(*                                                                         *)
(* Specifications: Spec (delivery), SpecDrain (the transcript), SpecTrace  *)
(* (the raw-event log), SpecKey (the storage key), SpecUpkeep (the sweep   *)
(* next to lookups), SpecLifecycle (the thread manager's interval),        *)
(* SpecCli (the command line and its exit code), SpecParse (the event      *)
(* schema), SpecFormat (the formatters), SpecCrash (a drain that is        *)
(* killed), SpecRace (two invocations at once), SpecRead (the Stop branch  *)
(* and a transcript that fails), SpecSweep (a sweep whose file system      *)
(* fails), SpecTraceLive (SpecTrace with awaits that return), SpecStore    *)
(* (a session file whose reads and writes fail) and SpecChannel (runs      *)
(* with different --channel options).                                      *)
(***************************************************************************)
EXTENDS Integers, Sequences, FiniteSets

(* ------------------------------ bounds -------------------------------- *)

\* Invocations started in one behaviour of the delivery specification.
MaxInv == 3
\* Invocations started in one behaviour of the transcript specification.
MaxDrains == 3
\* Invocations started in one behaviour of the trace specification.
MaxTraces == 2
\* Largest value of the clock (Date.now()), in ticks.
MaxTime == 2
\* Lines the transcript file can grow to.
MaxLines == 2
\* Longest session id the key function is applied to.
MaxIdLen == 3
\* Calls started in one behaviour of the upkeep specification.
MaxLookups == 2
\* Cleanup intervals the clock of the lifecycle specification runs through.
MaxPeriods == 2
\* Invocations of the command line in one behaviour.
MaxCli == 2
\* Characters by which a text body is shorter or longer than a limit.
MaxOver == 2
\* Stop events in the Read specification.
MaxReads == 2

(* ------------------------------ inputs -------------------------------- *)

\* Characters session ids are made of; SafeChars is [a-zA-Z0-9-_].
SafeChars == {"a", "b", "Z", "0", "_", "-"}

\* Session ids: two that differ only in a character sanitization replaces,
\* and one unrelated.
SessionIds == { <<"a", "/">>, <<"a", "_">>, <<"b">> }

\* hook_event_name values of HookEventSchema.  processHookInput treats
\* PostToolUse, Notification and PreCompact exactly as UserPromptSubmit,
\* which stands for the four.
EventKinds == { "UserPromptSubmit", "Stop", "SubagentStop", "PreToolUse" }

\* The configured channel.
Channels == { "C1" }

\* Kinds of transcript line: an assistant turn with text, an assistant turn
\* whose text segments are all blank, an assistant turn with tool uses only,
\* a user line, a line that is no JSON.
LineKinds == { "text", "blank", "tool", "user", "bad" }

\* What a chat.postMessage call can do: resolve with a ts, reject, or
\* resolve without a ts.
PostOutcomes == { "ok", "reject" }
CreateOutcomes == { "ok", "reject", "nots" }

Procs == { "p1" }

(* ------------------------------- state -------------------------------- *)

VARIABLES
  now,         \* Date.now()
  files,       \* storage dir: sanitized id -> the session file <key>.json
  sentFiles,   \* storage dir: directory -> the hashes in its sent-messages.json
  transcript,  \* the lines of the transcript file
  nextTs,      \* the next message ts the messaging platform hands out
  proc,        \* the invocations: position and locals
  started,     \* invocations started so far
  created,     \* session id -> create-thread posts since its record was last removed
  lastRet,     \* session id -> what the last returned thread resolution returned
  turnPosts,   \* <<session id, line>> -> successful posts of that transcript turn
  rawLog,      \* storage dir: sanitized id -> the lines of <key>/events.jsonl
  mgr,         \* the thread manager: its cleanup interval and what it started
  sweep,       \* the cleanupOldSessions call in progress
  calc         \* a pure function applied to an input: its name, input and result

vars == << now, files, sentFiles, transcript, nextTs, proc,
           started, created, lastRet, turnPosts, rawLog, mgr, sweep, calc >>

\* The variables the delivery pipeline never touches once it has read stdin.
aside == << rawLog, mgr, sweep, calc >>

(* ------------------------- file-storage.ts ---------------------------- *)

\* A sanitization that replaces nothing.
sanitizeSessionIdRaw(sessionId) == sessionId

\* sessionId.replace(/[^a-zA-Z0-9-_]/g, "_")
sanitizeSessionId(sessionId) ==
  [i \in DOMAIN sessionId |->
     IF sessionId[i] \in SafeChars THEN sessionId[i] ELSE "_"]

\* The file name without its directory and its ".json".
getSessionFilePath(sessionId) == sanitizeSessionId(sessionId)

\* path.join: the segments of its arguments, split at "/", with empty and
\* "." segments dropped and ".." removing the segment before it.
RECURSIVE Split(_, _, _)
Split(name, i, cur) ==
  IF i > Len(name) THEN << cur >>
  ELSE IF name[i] = "/" THEN << cur >> \o Split(name, i + 1, << >>)
  ELSE Split(name, i + 1, Append(cur, name[i]))

RECURSIVE Normalize(_, _)
Normalize(stack, segs) ==
  IF segs = << >> THEN stack
  ELSE LET seg == Head(segs)
       IN IF seg = << >> \/ seg = << "." >> THEN Normalize(stack, Tail(segs))
          ELSE IF seg = << ".", "." >>
            THEN Normalize(IF stack = << >> THEN stack
                           ELSE SubSeq(stack, 1, Len(stack) - 1), Tail(segs))
          ELSE Normalize(Append(stack, seg), Tail(segs))

join(dir, name) == Normalize(dir, Split(name, 1, << >>))

\* DEFAULT_STORAGE_DIR, as path segments: <home>/.ccth.
StorageDir == << << "h" >>, << ".", "c" >> >>

\* getSessionFilePath with its directory: join(storageDir, `${key}.json`).
SessionFile(sessionId) ==
  join(StorageDir, Append(sanitizeSessionId(sessionId), ".json"))

Keys == { getSessionFilePath(s) : s \in SessionIds }

\* SessionData; threadTs 0 stands for no value.
NoSession == [threadTs |-> 0, lastActivity |-> 0, channel |-> "", sessionId |-> <<>>]

\* JSON.stringify(data, null, 2) and JSON.parse of a session file.
Stringify(data) ==
  << data.threadTs, data.lastActivity, data.channel, data.sessionId >>

Parse(content) ==
  [threadTs |-> content[1], lastActivity |-> content[2],
   channel |-> content[3], sessionId |-> content[4]]

NoFile == [exists |-> FALSE, content |-> <<>>, mtime |-> 0]

\* A save that leaves a file that exists as it is.
saveSessionOnce(fs, sessionId, data, t) ==
  IF fs[getSessionFilePath(sessionId)].exists THEN fs
  ELSE [fs EXCEPT ![getSessionFilePath(sessionId)] =
          [exists |-> TRUE, content |-> Stringify(data), mtime |-> t]]

\* A save whose write is lost.
saveSessionLost(fs, sessionId, data, t) == fs

\* saveSession: fs.writeFile of the stringified data.
saveSession(fs, sessionId, data, t) ==
  [fs EXCEPT ![getSessionFilePath(sessionId)] =
     [exists |-> TRUE, content |-> Stringify(data), mtime |-> t]]

\* A load that finds no session file.
loadSessionAbsent(fs, sessionId) == NoSession

\* loadSession: the parsed file, or null (NoSession) when there is none or
\* it cannot be parsed.
loadSession(fs, sessionId) ==
  LET f == fs[getSessionFilePath(sessionId)]
  IN IF f.exists /\ Len(f.content) = 4 THEN Parse(f.content) ELSE NoSession

\* A load that returns the record whatever the read did.
loadSessionAnyway(fs, sessionId, w) == loadSession(fs, sessionId)

\* loadSession with a read that can fail: the catch logs "Failed to load
\* session data" and returns null.
loadSessionCaught(fs, sessionId, w) ==
  IF w = "ok" THEN loadSession(fs, sessionId) ELSE NoSession

\* The file of the sent-messages set of a session, without its last
\* component: join(storageDir, sessionId, "sent-messages.json") takes the
\* id as it is, and path.join drops a separator that ends it.
sentMessagesPath(sessionId) ==
  IF Len(sessionId) > 0 /\ sessionId[Len(sessionId)] = "/"
  THEN SubSeq(sessionId, 1, Len(sessionId) - 1)
  ELSE sessionId

SentDirs == { sentMessagesPath(s) : s \in SessionIds }

\* hashMessage: the sha256 of the stringified line, collision-free here.
hashMessage(message) == << message.uuid, message.kind >>

(* ----------------------------- processes ------------------------------ *)

\* What a thread resolution returned: the handle and the create-thread posts
\* it made.
NoRet == [ts |-> 0, creates |-> 0]

\* An object on stdin that has a session_id.
Input(sid, kind, complete, tpath) ==
  [wellFormed |-> TRUE, hasSid |-> TRUE, sid |-> sid, kind |-> kind,
   complete |-> complete, tpath |-> tpath]

\* Text that is no JSON, and an object without session_id.
Malformed ==
  [wellFormed |-> FALSE, hasSid |-> FALSE, sid |-> <<>>, kind |-> "",
   complete |-> FALSE, tpath |-> ""]

NoSessionId ==
  [wellFormed |-> TRUE, hasSid |-> FALSE, sid |-> <<>>, kind |-> "Stop",
   complete |-> TRUE, tpath |-> ""]

\* No thread manager, no sweep, no calculation.
NoManager ==
  [created |-> FALSE, interval |-> FALSE, createdAt |-> 0, nextFire |-> 0,
   timeoutSeconds |-> 0, timeoutMs |-> 0, sweeps |-> 0]

\* No cleanupOldSessions call has run.  phase: where the call is; now and
\* maxAge: its locals; pending: the entries its promises have yet to stat;
\* doomed: those they have yet to unlink.  listed, seen and removed record
\* what the call read from the directory, what its stats returned and what
\* it unlinked; errors records the entries whose promise logged an error.
NoSweep ==
  [phase |-> "idle", now |-> 0, maxAge |-> 0, pending |-> {}, doomed |-> {},
   listed |-> {}, seen |-> {}, removed |-> {}, errors |-> {}]

NoCalc == [fn |-> "", arg |-> << >>, key |-> << >>, path |-> << >>]

\* A process that runs nothing.
Idle ==
  [pc |-> "idle", entry |-> "none", data |-> Malformed,
   sid |-> <<>>, kind |-> "", tpath |-> "",
   dryRun |-> FALSE, debug |-> FALSE, client |-> FALSE, channel |-> "",
   loaded |-> NoSession, saved |-> NoSession, threadTs |-> 0, t |-> 0,
   rawBefore |-> 0, code |-> -1,
   plog |-> <<>>, wrote |-> FALSE, err |-> "", prev |-> NoRet,
   disturbed |-> FALSE, logged |-> FALSE, unread |-> FALSE,
   lines |-> <<>>, i |-> 0, set |-> {}]

\* A transcript line: its uuid (here its position) and its kind.
Line(n, k) == [uuid |-> n, kind |-> k]

InitStore(lines) ==
  /\ now = 0
  /\ files = [k \in Keys |-> NoFile]
  /\ sentFiles = [d \in SentDirs |-> {}]
  /\ transcript = lines
  /\ nextTs = 1
  /\ proc = [p \in Procs |-> Idle]
  /\ started = 0
  /\ created = [s \in SessionIds |-> 0]
  /\ lastRet = [s \in SessionIds |-> NoRet]
  /\ turnPosts = [x \in SessionIds \X (1..MaxLines) |-> 0]
  /\ rawLog = [k \in Keys |-> 0]
  /\ mgr = NoManager
  /\ sweep = NoSweep

InitWith(lines) == InitStore(lines) /\ calc = NoCalc

\* The store is empty; the transcript holds one assistant turn with text.
Init == InitWith(<< Line(1, "text") >>)

(* ---------------------------- environments ---------------------------- *)

\* What can arrive on stdin for the sessions S: the two above, an object of
\* an unknown kind, an object that lacks a required field, and for every
\* session an event of each kind and a Stop event with an empty
\* transcript_path.
HookInputs(S) ==
  { Malformed, NoSessionId }
  \cup { Input(sid, "Unknown", TRUE, "/t") : sid \in S }
  \cup { Input(sid, "Stop", FALSE, "/t") : sid \in S }
  \cup { Input(sid, kind, TRUE, "/t") : sid \in S, kind \in EventKinds }
  \cup { Input(sid, "Stop", TRUE, "") : sid \in S }

\* The delivery environment: every input for two sessions whose ids
\* sanitize to the same key, and a file system that does not fail (fs: the
\* session files; tfs: the transcript and the sent-messages files).
DeliverySessions == { <<"a", "/">>, <<"a", "_">> }

Delivery ==
  [inputs |-> HookInputs(DeliverySessions), dryRuns |-> BOOLEAN,
   debugs |-> {FALSE}, sids |-> DeliverySessions, fs |-> {"ok"}, tfs |-> {"ok"},
   maxInv |-> MaxInv]

(* ------------------------------ the clock ----------------------------- *)

Tick ==
  /\ now < MaxTime
  /\ now' = now + 1
  /\ UNCHANGED << aside, files, sentFiles, transcript, nextTs, proc,
                  started, created, lastRet, turnPosts >>

\* The transcript is appended to by the assistant tool, outside this program.
AppendLine ==
  /\ Len(transcript) < MaxLines
  /\ \E k \in LineKinds :
       transcript' = Append(transcript, Line(Len(transcript) + 1, k))
  /\ UNCHANGED << aside, now, files, sentFiles, nextTs, proc,
                  started, created, lastRet, turnPosts >>

(* -------------------------- hook-event schema ------------------------- *)

\* parseHookEvent: the event, or null (FALSE) when HookEventSchema rejects.
parseHookEvent(data) ==
  data.hasSid /\ data.kind \in EventKinds /\ data.complete

(* --------------------------- hook-processor.ts ------------------------ *)

\* One chat.postMessage call, as the invocation's log keeps it.
Post(op, channel, thread, ts, line, ok) ==
  [op |-> op, channel |-> channel, thread |-> thread, ts |-> ts,
   line |-> line, ok |-> ok]

\* JSON.parse and parseHookEvent: the error thrown, "" when there is none.
Validate(data) ==
  IF ~data.wellFormed THEN "Failed to parse JSON input"
  ELSE IF ~parseHookEvent(data) THEN "Invalid hook event format"
  ELSE ""

InputErrors == { "Failed to parse JSON input", "Invalid hook event format" }

\* A pipeline that goes on after an input error, and one that takes the
\* Slack branch in a dry run.
AfterValidationUnchecked(err, dryRun) == IF dryRun THEN "done" ELSE "resolve"

AfterValidationWet(err, dryRun) == IF err /= "" THEN "aborted" ELSE "resolve"

\* Where processHookInput goes after validation and formatting: reject, the
\* dry-run branch (log and resolve), or the Slack branch.
AfterValidation(err, dryRun) ==
  IF err /= "" THEN "aborted" ELSE IF dryRun THEN "done" ELSE "resolve"

\* A capture that does not look at the debug option.
CapturesAlways(debug, data) == data.wellFormed /\ data.hasSid

\* if (debug): the raw input is appended when it parses to an object that
\* has a session_id.
Captures(debug, data) == debug /\ data.wellFormed /\ data.hasSid

\* appendEvent: one more line in <key>/events.jsonl.
appendEvent(log, sessionId) ==
  [log EXCEPT ![getSessionFilePath(sessionId)] = @ + 1]

\* processHookInput, from the end of stdin to its first call that touches
\* the session store: the capture of the raw event, JSON.parse,
\* parseHookEvent, the formatting and the dry-run branch.  cli.ts hands it
\* a client exactly when it is not a dry run, and no debug option.
Received(data, dryRun, debug, channel) ==
  [Idle EXCEPT !.entry = "hook", !.data = data, !.dryRun = dryRun,
               !.debug = debug,
               !.rawBefore = IF data.sid \in SessionIds
                             THEN rawLog[getSessionFilePath(data.sid)]
                             ELSE 0,
               !.client = ~dryRun, !.channel = channel,
               !.sid = data.sid, !.kind = data.kind,
               !.tpath = data.tpath, !.err = Validate(data),
               !.pc = AfterValidation(Validate(data), dryRun)]

HookInput(p, e) ==
  /\ proc[p].pc = "idle"
  /\ started < e.maxInv
  /\ started' = started + 1
  /\ \E data \in e.inputs, dryRun \in e.dryRuns, debug \in e.debugs,
        channel \in Channels :
       LET capture == Captures(debug, data) /\ data.sid \in SessionIds
       IN /\ rawLog' = IF capture THEN appendEvent(rawLog, data.sid) ELSE rawLog
          /\ proc' = [proc EXCEPT ![p] = Received(data, dryRun, debug, channel)]
  /\ UNCHANGED << mgr, sweep, calc, now, files, sentFiles, transcript, nextTs,
                  created, lastRet, turnPosts >>

(* --------------------------- thread-manager.ts ------------------------ *)

\* A direct call of the exported getOrCreateThread, with or without a client.
CallGetOrCreateThread(p, e) ==
  /\ proc[p].pc = "idle"
  /\ started < e.maxInv
  /\ started' = started + 1
  /\ \E sid \in e.sids, client \in BOOLEAN, channel \in Channels :
       proc' = [proc EXCEPT ![p] =
         [Idle EXCEPT !.entry = "thread", !.sid = sid, !.client = client,
                      !.channel = channel, !.pc = "resolve"]]
  /\ UNCHANGED << aside, now, files, sentFiles, transcript, nextTs,
                  created, lastRet, turnPosts >>

\* The create-thread posts in a log of posts.
Creates(plog) == { n \in DOMAIN plog : plog[n].op = "create" }

\* getOrCreateThread returns ts to its caller: processHookInput goes on to
\* the primary post, a direct caller is done.
Returned(me, ts) ==
  [me EXCEPT !.threadTs = ts, !.t = 0,
             !.pc = IF me.entry = "hook" THEN "primary" ELSE "done"]

RetOf(me) ==
  [ts |-> me.threadTs, creates |-> Cardinality(Creates(me.plog))]

\* const existingSession = await fileStorage.loadSession(sessionId), and
\* what follows it without an await: the Date.now() of the updated session
\* when there is one, the test of config.client when there is none.
GetLoad(p, e) ==
  /\ proc[p].pc = "resolve"
  /\ proc[p].sid \in SessionIds
  /\ \E w \in e.fs :
       LET me == proc[p]
           existingSession == loadSessionCaught(files, me.sid, w)
       IN proc' = [proc EXCEPT ![p] =
            [me EXCEPT !.loaded = existingSession,
                       !.unread = w /= "ok" /\ files[getSessionFilePath(me.sid)].exists,
                       !.prev = lastRet[me.sid],
                       !.t = IF existingSession /= NoSession THEN now ELSE 0,
                       !.pc = IF existingSession /= NoSession THEN "bump"
                              ELSE IF ~me.client THEN "aborted"
                              ELSE "create",
                       !.err = IF existingSession = NoSession /\ ~me.client
                               THEN "Slack client not initialized" ELSE ""]]
  /\ UNCHANGED << aside, now, files, sentFiles, transcript, nextTs,
                  started, created, lastRet, turnPosts >>

\* An update that also rewrites the channel.
updatedSessionRechannelled(existingSession, t) ==
  [existingSession EXCEPT !.lastActivity = t, !.channel = ""]

\* A caller that goes on after a save that failed.
onSaveErrorIgnored(me, err) ==
  [me EXCEPT !.err = err, !.pc = IF me.entry = "hook" THEN "primary" ELSE "done"]

\* saveSession throws: getOrCreateThread throws to its caller, and
\* processHookInput rejects.
onSaveError(me, err) == [me EXCEPT !.pc = "aborted", !.err = err]

\* { ...existingSession, lastActivity: Date.now() }
updatedSession(existingSession, t) ==
  [existingSession EXCEPT !.lastActivity = t]

\* The existing-session branch: save the updated session, return its threadTs.
GetBump(p, e) ==
  /\ proc[p].pc = "bump"
  /\ \E w \in e.fs :
       LET me == proc[p]
           fs == saveSession(files, me.sid, updatedSession(me.loaded, me.t), now)
           ret == Returned([me EXCEPT !.saved = loadSession(fs, me.sid),
                                      !.wrote = TRUE], me.loaded.threadTs)
       IN IF w = "ok"
          THEN /\ files' = fs
               /\ proc' = [proc EXCEPT ![p] = ret]
               /\ lastRet' = [lastRet EXCEPT ![me.sid] = RetOf(ret)]
          ELSE /\ proc' = [proc EXCEPT ![p] =
                    onSaveError(me, "Failed to save session")]
               /\ UNCHANGED << files, lastRet >>
  /\ UNCHANGED << aside, now, sentFiles, transcript, nextTs,
                  started, created, turnPosts >>

\* A try block that accepts a result without ts.
AfterCreateLenient(outcome) ==
  IF outcome = "reject" THEN "Failed to create thread: rejected" ELSE ""

\* What the try block of getOrCreateThread throws after the create-thread
\* post, "" when it goes on to save.
AfterCreate(outcome) ==
  IF outcome = "reject" THEN "Failed to create thread: rejected"
  ELSE IF outcome = "nots"
  THEN "Failed to create thread: Failed to create thread - no timestamp returned"
  ELSE ""

\* await config.client.chat.postMessage({ channel, ...initialMessage }), and
\* what follows it without an await: the test of result.ts and the
\* Date.now() of sessionData.
GetCreate(p) ==
  /\ proc[p].pc = "create"
  /\ \E outcome \in CreateOutcomes :
       LET me == proc[p]
           ts == IF outcome = "ok" THEN nextTs ELSE 0
           err == AfterCreate(outcome)
           post == Post("create", me.channel, 0, ts, 0, outcome /= "reject")
       IN /\ nextTs' = IF outcome = "ok" THEN nextTs + 1 ELSE nextTs
          /\ created' = IF outcome = "ok"
                        THEN [created EXCEPT ![me.sid] = @ + 1] ELSE created
          /\ proc' = [proc EXCEPT ![p] =
               [me EXCEPT !.plog = Append(@, post), !.threadTs = ts,
                          !.t = IF err = "" THEN now ELSE 0,
                          !.err = err,
                          !.pc = IF err = "" THEN "persist" ELSE "aborted"]]
  /\ UNCHANGED << aside, now, files, sentFiles, transcript,
                  started, lastRet, turnPosts >>

\* A record that keeps another handle than the one returned.
sessionDataOther(ts, t, sessionId, channel) ==
  [threadTs |-> ts + 1, lastActivity |-> t, channel |-> channel,
   sessionId |-> sessionId]

\* const sessionData: SessionData = { threadTs: result.ts, ... }
sessionData(ts, t, sessionId, channel) ==
  [threadTs |-> ts, lastActivity |-> t, channel |-> channel,
   sessionId |-> sessionId]

\* await fileStorage.saveSession(sessionId, sessionData); return result.ts
GetPersist(p, e) ==
  /\ proc[p].pc = "persist"
  /\ \E w \in e.fs :
       LET me == proc[p]
           fs == saveSession(files, me.sid,
                             sessionData(me.threadTs, me.t, me.sid, me.channel), now)
           ret == Returned([me EXCEPT !.saved = loadSession(fs, me.sid),
                                      !.wrote = TRUE], me.threadTs)
       IN IF w = "ok"
          THEN /\ files' = fs
               /\ proc' = [proc EXCEPT ![p] = ret]
               /\ lastRet' = [lastRet EXCEPT ![me.sid] = RetOf(ret)]
          ELSE /\ proc' = [proc EXCEPT ![p] =
                    onSaveError(me, "Failed to create thread: Failed to save session")]
               /\ UNCHANGED << files, lastRet >>
  /\ UNCHANGED << aside, now, sentFiles, transcript, nextTs,
                  started, created, turnPosts >>

(* ---------------- hook-processor.ts, the Slack branch ----------------- *)

\* A pipeline whose promise is not settled after the primary post.
AfterPrimaryPending(kind, tpath) == "pending"

\* After the primary post: the Stop branch or resolve().
AfterPrimary(kind, tpath) ==
  IF kind = "Stop" /\ tpath /= "" THEN "assistant" ELSE "done"

\* await slackClient.chat.postMessage({ channel, thread_ts: threadTs, ... })
PostPrimary(p) ==
  /\ proc[p].pc = "primary"
  /\ \E outcome \in PostOutcomes :
       LET me == proc[p]
           post == Post("primary", me.channel, me.threadTs, 0, 0, outcome = "ok")
       IN proc' = [proc EXCEPT ![p] =
            [me EXCEPT !.plog = Append(@, post),
                       !.err = IF outcome = "ok" THEN "" ELSE "Failed to post",
                       !.pc = IF outcome = "ok"
                              THEN AfterPrimary(me.kind, me.tpath)
                              ELSE "aborted"]]
  /\ UNCHANGED << aside, now, files, sentFiles, transcript, nextTs,
                  started, created, lastRet, turnPosts >>

\* JSON.parse(line) does not throw.
IsJson(line) == line.kind /= "bad"

\* A reader that gives up the file at a line that does not parse.
readMessagesStrict(tpath) ==
  IF tpath = "/t" /\ \A n \in DOMAIN transcript : IsJson(transcript[n])
  THEN transcript ELSE << >>

\* readMessages: the lines of the file that parse; no file (ENOENT) reads
\* as no lines.
readMessages(tpath) ==
  IF tpath = "/t" THEN SelectSeq(transcript, IsJson) ELSE << >>

IsAssistant(message) == message.kind \in { "text", "blank", "tool" }

\* getLatestAssistantMessage: the position of the last assistant line, 0
\* when there is none.
getLatestAssistantMessage(messages) ==
  LET S == { n \in DOMAIN messages : IsAssistant(messages[n]) }
  IN IF S = {} THEN 0 ELSE CHOOSE n \in S : \A m \in S : m <= n

\* const assistantSummary = await reader.getLatestAssistantSummary(), and
\* the test of assistantSummary.text, the untrimmed text segments joined.
\* A read that fails is caught and logged ("Failed to read/send assistant
\* response").
ReadLatest(p, e) ==
  /\ proc[p].pc = "assistant"
  /\ \E w \in e.tfs :
       LET me == proc[p]
           messages == readMessages(me.tpath)
           n == getLatestAssistantMessage(messages)
       IN proc' = [proc EXCEPT ![p] =
            IF w = "ok"
            THEN [me EXCEPT !.lines = messages, !.i = n,
                    !.pc = IF n > 0 /\ messages[n].kind \in { "text", "blank" }
                           THEN "assistantPost" ELSE "done"]
            ELSE [me EXCEPT !.logged = TRUE, !.pc = "done"]]
  /\ UNCHANGED << aside, now, files, sentFiles, transcript, nextTs,
                  started, created, lastRet, turnPosts >>

\* The post of the assistant response; a rejection is caught and logged.
PostAssistant(p) ==
  /\ proc[p].pc = "assistantPost"
  /\ \E outcome \in PostOutcomes :
       LET me == proc[p]
           post == Post("assistant", me.channel, me.threadTs, 0,
                        me.lines[me.i].uuid, outcome = "ok")
       IN /\ proc' = [proc EXCEPT ![p] =
               [me EXCEPT !.plog = Append(@, post), !.logged = outcome /= "ok",
                          !.pc = "done"]]
          /\ turnPosts' = IF outcome = "ok"
               THEN [turnPosts EXCEPT ![<< me.sid, me.lines[me.i].uuid >>] = @ + 1]
               ELSE turnPosts
  /\ UNCHANGED << aside, now, files, sentFiles, transcript, nextTs,
                  started, created, lastRet >>

\* resolve() and reject(): the process ends and its locals are gone.
Exit(p) ==
  /\ proc[p].pc \in { "done", "aborted" }
  /\ proc' = [proc EXCEPT ![p] = Idle]
  /\ UNCHANGED << aside, now, files, sentFiles, transcript, nextTs,
                  started, created, lastRet, turnPosts >>

(* ------------------ file-storage.ts, deleteSession -------------------- *)

\* The session file of key k is gone: what is remembered of the sessions
\* stored under k starts anew, and a process that works on such a session
\* after its load has been disturbed.
Forget(k) ==
  /\ created' = [s \in SessionIds |->
       IF getSessionFilePath(s) = k THEN 0 ELSE created[s]]
  /\ lastRet' = [s \in SessionIds |->
       IF getSessionFilePath(s) = k THEN NoRet ELSE lastRet[s]]
  /\ proc' = [p \in Procs |->
       IF /\ proc[p].pc \notin { "idle", "resolve" }
          /\ proc[p].sid \in SessionIds
          /\ getSessionFilePath(proc[p].sid) = k
       THEN [proc[p] EXCEPT !.disturbed = TRUE] ELSE proc[p]]

\* deleteSession: fs.unlink of the session file; no file is no error.
DeleteSession(sessionId) ==
  LET k == getSessionFilePath(sessionId)
  IN /\ files[k].exists
     /\ files' = [files EXCEPT ![k] = NoFile]
     /\ Forget(k)
     /\ UNCHANGED << aside, now, sentFiles, transcript, nextTs, started, turnPosts >>

(* ------------- sendUnsentAssistantMessages (file-storage.ts) ---------- *)

\* Thread handles a caller passes to sendUnsentAssistantMessages.
Handles == { 1 }

\* The drain environment: one session whose id holds a separator, Stop
\* events with the transcript, and a file system whose reads and writes of
\* the transcript and of the sent-messages file can fail.
Drain ==
  [inputs |-> { Input(<<"a", "/">>, "Stop", TRUE, "/t") }, dryRuns |-> {FALSE},
   debugs |-> {FALSE}, sids |-> { <<"a", "/">> }, fs |-> {"ok"}, tfs |-> {"ok", "fail"},
   maxInv |-> MaxDrains]

\* A call of the exported sendUnsentAssistantMessages.
CallSendUnsent(p, e) ==
  /\ proc[p].pc = "idle"
  /\ started < e.maxInv
  /\ started' = started + 1
  /\ \E sid \in e.sids, threadTs \in Handles, channel \in Channels :
       proc' = [proc EXCEPT ![p] =
         [Idle EXCEPT !.entry = "drain", !.sid = sid, !.client = TRUE,
                      !.channel = channel, !.threadTs = threadTs,
                      !.tpath = "/t", !.pc = "drainRead"]]
  /\ UNCHANGED << aside, now, files, sentFiles, transcript, nextTs,
                  created, lastRet, turnPosts >>

\* The assistant lines, last line first.
getAllAssistantMessagesReversed(messages) ==
  LET a == SelectSeq(messages, IsAssistant)
  IN [n \in 1..Len(a) |-> a[Len(a) + 1 - n]]

\* getAllAssistantMessages: the assistant lines, in the order of the file.
getAllAssistantMessages(messages) == SelectSeq(messages, IsAssistant)

\* loadSentMessages: the hashes of the file; the empty set when it cannot
\* be read.
loadSentMessages(sessionId, w) ==
  IF w = "ok" THEN sentFiles[sentMessagesPath(sessionId)] ELSE {}

\* The loop goes to its next message, or ends after the last.
Continue(me) ==
  IF me.i < Len(me.lines)
  THEN [me EXCEPT !.i = @ + 1, !.pc = "drainCheck"]
  ELSE [me EXCEPT !.pc = "done"]

\* const allMessages = await reader.getAllAssistantMessages(); a read that
\* fails for another reason than a missing file is caught by the outer try.
DrainRead(p, e) ==
  /\ proc[p].pc = "drainRead"
  /\ \E w \in e.tfs :
       LET me == proc[p]
           allMessages == getAllAssistantMessages(readMessages(me.tpath))
       IN proc' = [proc EXCEPT ![p] =
            IF w = "ok" /\ Len(allMessages) > 0
            THEN [me EXCEPT !.lines = allMessages, !.i = 1, !.pc = "drainCheck"]
            ELSE [me EXCEPT !.pc = "done"]]
  /\ UNCHANGED << aside, now, files, sentFiles, transcript, nextTs,
                  started, created, lastRet, turnPosts >>

\* A test of the text segments that does not trim them.
hasTextContentUntrimmed(message) == message.kind \in { "text", "blank" }

\* hasTextContent: some text segment of the turn is not blank.
hasTextContent(message) == message.kind = "text"

\* if (await sentMessagesStorage.hasBeenSent(messageHash)) continue; and
\* the test of hasTextContent.
DrainCheck(p, e) ==
  /\ proc[p].pc = "drainCheck"
  /\ \E w \in e.tfs :
       LET me == proc[p]
           message == me.lines[me.i]
           hasBeenSent == hashMessage(message) \in loadSentMessages(me.sid, w)
       IN proc' = [proc EXCEPT ![p] =
            IF hasBeenSent \/ ~hasTextContent(message)
            THEN Continue(me) ELSE [me EXCEPT !.pc = "drainPost"]]
  /\ UNCHANGED << aside, now, files, sentFiles, transcript, nextTs,
                  started, created, lastRet, turnPosts >>

\* A loop that marks whatever the post did.
AfterPostAlways(outcome) == "drainMarkLoad"

\* After await client.chat.postMessage: markAsSent, or the catch of the
\* outer try, which ends the loop.
AfterPost(outcome) == IF outcome = "ok" THEN "drainMarkLoad" ELSE "done"

DrainPost(p) ==
  /\ proc[p].pc = "drainPost"
  /\ \E outcome \in PostOutcomes :
       LET me == proc[p]
           uuid == me.lines[me.i].uuid
           post == Post("drain", me.channel, me.threadTs, 0, uuid, outcome = "ok")
       IN /\ proc' = [proc EXCEPT ![p] =
               [me EXCEPT !.plog = Append(@, post), !.pc = AfterPost(outcome)]]
          /\ turnPosts' = IF outcome = "ok"
               THEN [turnPosts EXCEPT ![<< me.sid, uuid >>] = @ + 1]
               ELSE turnPosts
  /\ UNCHANGED << aside, now, files, sentFiles, transcript, nextTs,
                  started, created, lastRet >>

\* markAsSent: const messages = await this.loadSentMessages()
DrainMarkLoad(p, e) ==
  /\ proc[p].pc = "drainMarkLoad"
  /\ \E w \in e.tfs :
       proc' = [proc EXCEPT ![p] =
         [@ EXCEPT !.set = loadSentMessages(proc[p].sid, w),
                   !.pc = "drainMarkSave"]]
  /\ UNCHANGED << aside, now, files, sentFiles, transcript, nextTs,
                  started, created, lastRet, turnPosts >>

\* markAsSent: messages.add(messageHash); await this.saveSentMessages(messages),
\* which catches and logs a write that fails.
DrainMarkSave(p, e) ==
  /\ proc[p].pc = "drainMarkSave"
  /\ \E w \in e.tfs :
       LET me == proc[p]
           messages == me.set \cup { hashMessage(me.lines[me.i]) }
       IN /\ sentFiles' = IF w = "ok"
               THEN [sentFiles EXCEPT ![sentMessagesPath(me.sid)] = messages]
               ELSE sentFiles
          /\ proc' = [proc EXCEPT ![p] = Continue([me EXCEPT !.set = {}])]
  /\ UNCHANGED << aside, now, files, transcript, nextTs,
                  started, created, lastRet, turnPosts >>

(* --------------------------- specifications --------------------------- *)

\* Delivery: invocations of the CLI and direct calls of getOrCreateThread,
\* one at a time, against a store whose session files can be deleted.
Next ==
  \/ Tick
  \/ \E p \in Procs : HookInput(p, Delivery)
  \/ \E p \in Procs : CallGetOrCreateThread(p, Delivery)
  \/ \E p \in Procs : GetLoad(p, Delivery)
  \/ \E p \in Procs : GetBump(p, Delivery)
  \/ \E p \in Procs : GetCreate(p)
  \/ \E p \in Procs : GetPersist(p, Delivery)
  \/ \E p \in Procs : PostPrimary(p)
  \/ \E p \in Procs : ReadLatest(p, Delivery)
  \/ \E p \in Procs : PostAssistant(p)
  \/ \E s \in DeliverySessions : DeleteSession(s)
  \/ \E p \in Procs : Exit(p)

Spec == Init /\ [][Next]_vars

\* Drain: Stop events and calls of sendUnsentAssistantMessages for one
\* session, one at a time, while the transcript grows.
InitDrain == InitWith(<< >>)

NextDrain ==
  \/ AppendLine
  \/ \E p \in Procs : HookInput(p, Drain)
  \/ \E p \in Procs : GetLoad(p, Drain)
  \/ \E p \in Procs : GetBump(p, Drain)
  \/ \E p \in Procs : GetCreate(p)
  \/ \E p \in Procs : GetPersist(p, Drain)
  \/ \E p \in Procs : PostPrimary(p)
  \/ \E p \in Procs : ReadLatest(p, Drain)
  \/ \E p \in Procs : PostAssistant(p)
  \/ \E p \in Procs : CallSendUnsent(p, Drain)
  \/ \E p \in Procs : DrainRead(p, Drain)
  \/ \E p \in Procs : DrainCheck(p, Drain)
  \/ \E p \in Procs : DrainPost(p)
  \/ \E p \in Procs : DrainMarkLoad(p, Drain)
  \/ \E p \in Procs : DrainMarkSave(p, Drain)
  \/ \E p \in Procs : Exit(p)

SpecDrain == InitDrain /\ [][NextDrain]_vars

\* The points of sendUnsentAssistantMessages at which the process waits.
DrainPcs == { "drainRead", "drainCheck", "drainPost", "drainMarkLoad", "drainMarkSave" }

\* The process is killed while sendUnsentAssistantMessages waits at one of
\* its awaits: its locals are gone, the files stay as they are.
Crash(p) ==
  /\ proc[p].pc \in DrainPcs
  /\ proc' = [proc EXCEPT ![p] = Idle]
  /\ UNCHANGED << aside, now, files, sentFiles, transcript, nextTs,
                  started, created, lastRet, turnPosts >>

\* The crash environment: the drain of one session and a file system that
\* does not fail.
Crashing ==
  [inputs |-> {}, dryRuns |-> {FALSE}, debugs |-> {FALSE},
   sids |-> { <<"a", "/">> }, fs |-> {"ok"}, tfs |-> {"ok"}, maxInv |-> MaxDrains]

\* Crash: calls of sendUnsentAssistantMessages for one session, one at a
\* time, each of which can be killed at any of its awaits, while the
\* transcript grows.
NextCrash ==
  \/ AppendLine
  \/ \E p \in Procs : CallSendUnsent(p, Crashing)
  \/ \E p \in Procs : DrainRead(p, Crashing)
  \/ \E p \in Procs : DrainCheck(p, Crashing)
  \/ \E p \in Procs : DrainPost(p)
  \/ \E p \in Procs : DrainMarkLoad(p, Crashing)
  \/ \E p \in Procs : DrainMarkSave(p, Crashing)
  \/ \E p \in Procs : Crash(p)
  \/ \E p \in Procs : Exit(p)

SpecCrash == InitDrain /\ [][NextCrash]_vars

\* Two invocations at once.
RaceProcs == { "p1", "p2" }

\* The race environment: direct calls of getOrCreateThread for one session,
\* and a file system that does not fail.
Race ==
  [inputs |-> {}, dryRuns |-> {FALSE}, debugs |-> {FALSE},
   sids |-> { <<"b">> }, fs |-> {"ok"}, tfs |-> {"ok"}, maxInv |-> MaxInv]

\* The store is empty and neither process runs.
InitRace ==
  /\ now = 0
  /\ files = [k \in Keys |-> NoFile]
  /\ sentFiles = [d \in SentDirs |-> {}]
  /\ transcript = << >>
  /\ nextTs = 1
  /\ proc = [p \in RaceProcs |-> Idle]
  /\ started = 0
  /\ created = [s \in SessionIds |-> 0]
  /\ lastRet = [s \in SessionIds |-> NoRet]
  /\ turnPosts = [x \in SessionIds \X (1..MaxLines) |-> 0]
  /\ rawLog = [k \in Keys |-> 0]
  /\ mgr = NoManager
  /\ sweep = NoSweep
  /\ calc = NoCalc

\* Race: calls of getOrCreateThread for one session by two processes whose
\* awaits interleave.
NextRace ==
  \/ \E p \in RaceProcs : CallGetOrCreateThread(p, Race)
  \/ \E p \in RaceProcs : GetLoad(p, Race)
  \/ \E p \in RaceProcs : GetBump(p, Race)
  \/ \E p \in RaceProcs : GetCreate(p)
  \/ \E p \in RaceProcs : GetPersist(p, Race)
  \/ \E p \in RaceProcs : Exit(p)

SpecRace == InitRace /\ [][NextRace]_vars

\* The reading environment: Stop events of one session that name the
\* transcript or a file that does not exist, a Slack that can reject every
\* post and a transcript whose read can fail.
Reading ==
  [inputs |-> { Input(<<"b">>, "Stop", TRUE, "/t"),
                Input(<<"b">>, "Stop", TRUE, "/none") },
   dryRuns |-> {FALSE}, debugs |-> {FALSE}, sids |-> { <<"b">> },
   fs |-> {"ok"}, tfs |-> {"ok", "fail"}, maxInv |-> MaxReads]

\* Read: Stop events, one at a time, while the transcript grows.
NextRead ==
  \/ AppendLine
  \/ \E p \in Procs : HookInput(p, Reading)
  \/ \E p \in Procs : GetLoad(p, Reading)
  \/ \E p \in Procs : GetBump(p, Reading)
  \/ \E p \in Procs : GetCreate(p)
  \/ \E p \in Procs : GetPersist(p, Reading)
  \/ \E p \in Procs : PostPrimary(p)
  \/ \E p \in Procs : ReadLatest(p, Reading)
  \/ \E p \in Procs : PostAssistant(p)
  \/ \E p \in Procs : Exit(p)

SpecRead == InitDrain /\ [][NextRead]_vars

\* The failing-store environment: events of one session, and a store whose
\* reads and writes of the session file can fail.
Storing ==
  [inputs |-> { Input(<<"b">>, "UserPromptSubmit", TRUE, "/t") },
   dryRuns |-> {FALSE}, debugs |-> {FALSE}, sids |-> { <<"b">> },
   fs |-> {"ok", "fail"}, tfs |-> {"ok"}, maxInv |-> MaxInv]

\* Store: events of one session, one at a time; no sweep runs and no
\* session is deleted.
NextStore ==
  \/ \E p \in Procs : HookInput(p, Storing)
  \/ \E p \in Procs : GetLoad(p, Storing)
  \/ \E p \in Procs : GetBump(p, Storing)
  \/ \E p \in Procs : GetCreate(p)
  \/ \E p \in Procs : GetPersist(p, Storing)
  \/ \E p \in Procs : PostPrimary(p)
  \/ \E p \in Procs : Exit(p)

SpecStore == InitDrain /\ [][NextStore]_vars

\* The key function applied to every id of at most MaxIdLen characters, some
\* of them outside [a-zA-Z0-9_-], and the file path built from the key.
IdChars == { "a", "Z", "0", "_", "-", "/", "." }

RECURSIVE IdsOfLen(_)
IdsOfLen(n) ==
  IF n = 0 THEN { << >> }
  ELSE { Append(x, c) : x \in IdsOfLen(n - 1), c \in IdChars }

KeyInputs == UNION { IdsOfLen(n) : n \in 0..MaxIdLen }

InitKey ==
  /\ InitStore(<< >>)
  /\ calc \in { [NoCalc EXCEPT !.arg = a] : a \in KeyInputs }

ApplySanitize ==
  /\ calc.fn = ""
  /\ calc' = [calc EXCEPT !.fn = "sanitizeSessionId",
                          !.key = sanitizeSessionId(calc.arg)]
  /\ UNCHANGED << now, files, sentFiles, transcript, nextTs, proc, started,
                  created, lastRet, turnPosts, rawLog, mgr, sweep >>

ApplyPath ==
  /\ calc.fn = "sanitizeSessionId"
  /\ calc' = [calc EXCEPT !.fn = "getSessionFilePath",
                          !.path = SessionFile(calc.arg)]
  /\ UNCHANGED << now, files, sentFiles, transcript, nextTs, proc, started,
                  created, lastRet, turnPosts, rawLog, mgr, sweep >>

\* SentMessagesStorage.filePath:
\* join(this.storageDir, this.sessionId, "sent-messages.json").
filePath(sessionId) ==
  Normalize(StorageDir,
            Split(sessionId, 1, << >>) \o << << "sent-messages.json" >> >>)

ApplyFilePath ==
  /\ calc.fn = ""
  /\ calc' = [calc EXCEPT !.fn = "filePath",
                          !.key = sanitizeSessionId(calc.arg),
                          !.path = filePath(calc.arg)]
  /\ UNCHANGED << now, files, sentFiles, transcript, nextTs, proc, started,
                  created, lastRet, turnPosts, rawLog, mgr, sweep >>

NextKey == ApplySanitize \/ ApplyPath \/ ApplyFilePath

SpecKey == InitKey /\ [][NextKey]_vars

(* ----------------------- HookEventSchema.parse ----------------------- *)

\* The hook_event_name literals of the seven schemas of the union.
SchemaKinds ==
  { "UserPromptSubmit", "PostToolUse", "Stop", "SubagentStop", "Notification",
    "PreCompact", "PreToolUse" }

\* The fields of BaseHookEventSchema next to hook_event_name.
BaseFields == { "session_id", "transcript_path", "cwd" }

\* What each schema adds with extend(): the keys it requires, and the keys
\* whose schema accepts undefined (optional(), unknown()).
Required(kind) ==
  BaseFields \cup
    (IF kind = "UserPromptSubmit" THEN { "prompt" }
     ELSE IF kind \in { "PostToolUse", "PreToolUse" } THEN { "tool_name", "tool_input" }
     ELSE IF kind = "Notification" THEN { "message" }
     ELSE IF kind = "PreCompact" THEN { "trigger", "custom_instructions" }
     ELSE {})

Optional(kind) ==
  IF kind = "PostToolUse" THEN { "tool_response" }
  ELSE IF kind \in { "Stop", "SubagentStop" } THEN { "stop_hook_active" }
  ELSE {}

\* The keys an input object can carry: those of the schemas and one that
\* no schema declares.
ObjectFields ==
  UNION { Required(k) \cup Optional(k) : k \in SchemaKinds } \cup { "extra" }

\* The objects handed to parseHookEvent: a hook_event_name, of a schema or
\* not, and a set of keys, each with a value of its declared type.
ParseInputs ==
  { [tag |-> t, fields |-> f] :
      t \in SchemaKinds \cup { "Unknown" }, f \in SUBSET ObjectFields }

\* null
NoEvent == [tag |-> "", fields |-> {}]

\* HookEventSchema.parse inside parseHookEvent: the discriminator picks the
\* schema, a missing required key throws (null), and the keys the schema
\* does not declare are stripped from the result, as z.object does.
HookEventSchemaParse(obj) ==
  IF obj.tag \in SchemaKinds /\ Required(obj.tag) \subseteq obj.fields
  THEN [tag |-> obj.tag,
        fields |-> obj.fields \cap (Required(obj.tag) \cup Optional(obj.tag))]
  ELSE NoEvent

InitParse ==
  /\ InitStore(<< >>)
  /\ calc \in { [fn |-> "", arg |-> o, event |-> NoEvent] : o \in ParseInputs }

ApplyParse ==
  /\ calc.fn = ""
  /\ calc' = [calc EXCEPT !.fn = "parseHookEvent",
                          !.event = HookEventSchemaParse(calc.arg)]
  /\ UNCHANGED << now, files, sentFiles, transcript, nextTs, proc, started,
                  created, lastRet, turnPosts, rawLog, mgr, sweep >>

NextParse == ApplyParse

SpecParse == InitParse /\ [][NextParse]_vars

(* ---------------------------- the formatters -------------------------- *)

\* "..."
Ellipsis == << ".", ".", "." >>

\* str.substring(0, n)
substring(str, n) == SubSeq(str, 1, IF n < Len(str) THEN n ELSE Len(str))

\* A string of n characters, each depending on its position.
Text(n) == [i \in 1..n |-> IF i % 2 = 0 THEN "a" ELSE "b"]

\* The lengths of the bodies: around 0 and around the limit of 3000.
BodyLengths == (0..MaxOver) \cup ((3000 - MaxOver)..(3000 + MaxOver))

\* Valid events as the formatters see them: the kind and the string the
\* kind carries (prompt, message, tool_name), and the text of an assistant
\* summary.
FormatInputs ==
  { [kind |-> k, body |-> Text(n)] : k \in SchemaKinds, n \in BodyLengths }

\* formatUserPromptSubmit: the fallback text and the text of the content
\* block.
formatUserPromptSubmit(event) ==
  [text |-> << "User: " >> \o substring(event.body, 100) \o Ellipsis,
   body |-> IF Len(event.body) > 3000
            THEN substring(event.body, 3000) \o Ellipsis
            ELSE event.body]

\* formatNotification: text and content block are event.message.
formatNotification(event) == [text |-> event.body, body |-> event.body]

\* formatHookEventForSlack: the switch on hook_event_name; the kinds
\* without a formatter get the generic text.
formatHookEventForSlack(event) ==
  IF event.kind = "UserPromptSubmit" THEN formatUserPromptSubmit(event)
  ELSE IF event.kind = "PostToolUse"
    THEN [text |-> << "Tool Use: " >> \o event.body, body |-> << >>]
  ELSE IF event.kind = "Stop" THEN [text |-> << "Session completed" >>, body |-> << >>]
  ELSE IF event.kind = "Notification" THEN formatNotification(event)
  ELSE [text |-> << event.kind, " event" >>, body |-> << >>]

\* formatAssistantResponseForSlack(summary), summary.text being the body.
formatAssistantResponseForSlack(summary) ==
  [text |-> << "Assistant: " >> \o substring(summary.body, 100) \o Ellipsis,
   body |-> IF Len(summary.body) > 3000
            THEN substring(summary.body, 3000) \o Ellipsis
            ELSE summary.body]

\* truncateText(text, maxLength) of message-formatter.ts.
truncateText(text, maxLength) ==
  IF Len(text) <= maxLength THEN text
  ELSE substring(text, maxLength - 3) \o Ellipsis

NoMessage == [text |-> << >>, body |-> << >>]

InitFormat ==
  /\ InitStore(<< >>)
  /\ calc \in { [fn |-> "", arg |-> e, out |-> NoMessage] : e \in FormatInputs }

ApplyFormat ==
  /\ calc.fn = ""
  /\ calc' = [calc EXCEPT !.fn = "formatHookEventForSlack",
                          !.out = formatHookEventForSlack(calc.arg)]
  /\ UNCHANGED << now, files, sentFiles, transcript, nextTs, proc, started,
                  created, lastRet, turnPosts, rawLog, mgr, sweep >>

ApplyFormatAssistant ==
  /\ calc.fn = ""
  /\ calc' = [calc EXCEPT !.fn = "formatAssistantResponseForSlack",
                          !.out = formatAssistantResponseForSlack(calc.arg)]
  /\ UNCHANGED << now, files, sentFiles, transcript, nextTs, proc, started,
                  created, lastRet, turnPosts, rawLog, mgr, sweep >>

ApplyTruncate ==
  /\ calc.fn = ""
  /\ calc' = [calc EXCEPT !.fn = "truncateText",
                          !.out = [text |-> << >>,
                                   body |-> truncateText(calc.arg.body, 3000)]]
  /\ UNCHANGED << now, files, sentFiles, transcript, nextTs, proc, started,
                  created, lastRet, turnPosts, rawLog, mgr, sweep >>

NextFormat == ApplyFormat \/ ApplyFormatAssistant \/ ApplyTruncate

SpecFormat == InitFormat /\ [][NextFormat]_vars

(* ------------- cleanupOldSessions and createThreadManager ------------- *)

\* 5 * 60 * 1000: the period of the cleanup interval.
IntervalMs == 5 * 60 * 1000

\* timeoutSeconds of a ThreadManagerConfig that does not set it.
Unset == -1

\* The timeouts a manager is configured with: none, 0 seconds, 1 second.
TimeoutOptions == { Unset, 0, 1 }

\* The default taken whatever the configuration says.
timeoutMsDefault(timeoutSeconds) == 3600 * 1000

\* (config.timeoutSeconds || 3600) * 1000
timeoutMs(timeoutSeconds) ==
  (IF timeoutSeconds = Unset \/ timeoutSeconds = 0 THEN 3600 ELSE timeoutSeconds)
    * 1000

\* An age test that also expires a file exactly maxAgeMs old.
ExpiredAt(age, maxAgeMs) == age >= maxAgeMs

\* if (age > maxAgeMs)
Expired(age, maxAgeMs) == age > maxAgeMs

\* fs.readdir(storageDir): the session files <key>.json, and the
\* directories that hold a raw-event log or a sent-messages file.
Readdir ==
  { [name |-> k, json |-> TRUE] : k \in { x \in Keys : files[x].exists } }
  \cup { [name |-> k, json |-> FALSE] : k \in { x \in Keys : rawLog[x] > 0 } }
  \cup { [name |-> d, json |-> FALSE] : d \in { x \in SentDirs : sentFiles[x] # {} } }

\* file.endsWith(".json")
EndsWithJson(entry) == entry.json

\* The instants the clock takes in environment e: offsets into a cleanup
\* period.
Instants(e) ==
  { q * IntervalMs + r : q \in 0..e.periods, r \in e.offsets }

\* Time passes by one of the steps of e.  A timer that is due fires before
\* more time passes, and a sweep takes less than a cleanup period.
Elapse(e) ==
  /\ ~(mgr.interval /\ now >= mgr.nextFire)
  /\ \E d \in e.steps :
       /\ now + d \in Instants(e)
       /\ d = IntervalMs => sweep.phase = "idle"
       /\ now' = now + d
  /\ UNCHANGED << files, sentFiles, transcript, nextTs, proc, started, created,
                  lastRet, turnPosts, rawLog, mgr, sweep, calc >>

\* cleanupOldSessions(maxAgeMs) is called: it runs to its first await.
SweepCall(maxAgeMs) == [NoSweep EXCEPT !.phase = "readdir", !.maxAge = maxAgeMs]

\* createThreadManager(config): timeoutMs, then startCleanup(), which
\* calls the initial cleanup and sets the interval.
CreateThreadManager(e) ==
  /\ ~mgr.created
  /\ \E timeoutSeconds \in e.timeouts :
       /\ mgr' = [created |-> TRUE, interval |-> TRUE, createdAt |-> now,
                  nextFire |-> now + IntervalMs,
                  timeoutSeconds |-> timeoutSeconds,
                  timeoutMs |-> timeoutMs(timeoutSeconds), sweeps |-> 1]
       /\ sweep' = SweepCall(timeoutMs(timeoutSeconds))
  /\ UNCHANGED << now, files, sentFiles, transcript, nextTs, proc, started,
                  created, lastRet, turnPosts, rawLog, calc >>

\* The interval's callback: await fileStorage.cleanupOldSessions(timeoutMs).
IntervalFire ==
  /\ mgr.interval
  /\ now >= mgr.nextFire
  /\ mgr' = [mgr EXCEPT !.nextFire = @ + IntervalMs, !.sweeps = @ + 1]
  /\ sweep' = SweepCall(mgr.timeoutMs)
  /\ UNCHANGED << now, files, sentFiles, transcript, nextTs, proc, started,
                  created, lastRet, turnPosts, rawLog, calc >>

\* A destroy that leaves the interval set.
destroyKept(m) == m

\* destroy(): clearInterval(state.cleanupInterval).
destroy(m) == [m EXCEPT !.interval = FALSE]

Destroy ==
  /\ mgr.interval
  /\ mgr' = destroy(mgr)
  /\ UNCHANGED << now, files, sentFiles, transcript, nextTs, proc, started,
                  created, lastRet, turnPosts, rawLog, sweep, calc >>

\* A promise whose error ends the promises of the other entries.
onFileErrorAbort(sw, k) ==
  [sw EXCEPT !.pending = {}, !.doomed = {}, !.errors = @ \cup {k}]

\* The catch of the promise of entry k: the error is logged and the
\* promise is over.
onFileError(sw, k) ==
  [sw EXCEPT !.pending = @ \ {k}, !.doomed = @ \ {k}, !.errors = @ \cup {k}]

\* await ensureStorageDir; const files = await fs.readdir(storageDir);
\* const now = Date.now(); one promise per entry that ends with ".json".
\* A readdir that fails is caught by the outer try: the call logs and
\* returns.
SweepReaddir(e) ==
  /\ sweep.phase = "readdir"
  /\ \E w \in e.fs :
       sweep' = IF w = "ok"
                THEN [sweep EXCEPT !.phase = "files", !.now = now,
                        !.listed = Readdir,
                        !.pending = { x.name : x \in { y \in Readdir : EndsWithJson(y) } }]
                ELSE NoSweep
  /\ UNCHANGED << now, files, sentFiles, transcript, nextTs, proc, started,
                  created, lastRet, turnPosts, rawLog, mgr, calc >>

\* const stats = await fs.stat(filePath); age = now - stats.mtimeMs;
\* a stat that fails, as that of a file that is gone, throws into the
\* catch of the entry's promise.
SweepStat(k, e) ==
  /\ sweep.phase = "files"
  /\ k \in sweep.pending
  /\ \E w \in e.fs :
       sweep' =
         IF w = "ok" /\ files[k].exists
         THEN [sweep EXCEPT
                 !.pending = @ \ {k},
                 !.seen = @ \cup { [name |-> k, mtime |-> files[k].mtime,
                                     lastActivity |-> files[k].content[2]] },
                 !.doomed = IF Expired(sweep.now - files[k].mtime, sweep.maxAge)
                            THEN @ \cup {k} ELSE @]
         ELSE onFileError(sweep, k)
  /\ UNCHANGED << now, files, sentFiles, transcript, nextTs, proc, started,
                  created, lastRet, turnPosts, rawLog, mgr, calc >>

\* await fs.unlink(filePath); an unlink that fails, as that of a file that
\* is gone, throws into the catch of the entry's promise.
SweepUnlink(k, e) ==
  /\ sweep.phase = "files"
  /\ k \in sweep.doomed
  /\ \E w \in e.fs :
       IF w = "ok"
       THEN /\ sweep' = IF files[k].exists
                        THEN [sweep EXCEPT
                                !.doomed = @ \ {k},
                                !.removed = @ \cup { [name |-> k, at |-> now,
                                              lastActivity |-> files[k].content[2]] }]
                        ELSE onFileError(sweep, k)
            /\ files' = [files EXCEPT ![k] = NoFile]
            /\ Forget(k)
       ELSE /\ sweep' = onFileError(sweep, k)
            /\ UNCHANGED << files, proc, created, lastRet >>
  /\ UNCHANGED << now, sentFiles, transcript, nextTs, started, turnPosts,
                  rawLog, mgr, calc >>

\* await Promise.all(cleanupPromises)
SweepEnd ==
  /\ sweep.phase = "files"
  /\ sweep.pending = {}
  /\ sweep.doomed = {}
  /\ sweep' = NoSweep
  /\ UNCHANGED << now, files, sentFiles, transcript, nextTs, proc, started,
                  created, lastRet, turnPosts, rawLog, mgr, calc >>

\* Upkeep: the initial sweep of a thread manager whose timeout is one
\* second, next to calls of getOrCreateThread for one session and dry runs
\* with the debug option, which leave a raw-event log in the storage
\* directory.  The clock takes the first milliseconds and those around the
\* first second.
Upkeep ==
  [inputs |-> { Input(<<"b">>, "UserPromptSubmit", TRUE, "/t") },
   dryRuns |-> {TRUE}, debugs |-> {TRUE}, sids |-> { <<"b">> },
   fs |-> {"ok"}, tfs |-> {"ok"}, maxInv |-> MaxLookups,
   timeouts |-> {1}, steps |-> {1, 999}, periods |-> 0,
   offsets |-> (0..MaxTime) \cup (1000..(1000 + MaxTime))]

InitUpkeep == InitWith(<< >>)

NextUpkeep ==
  \/ Elapse(Upkeep)
  \/ CreateThreadManager(Upkeep)
  \/ SweepReaddir(Upkeep)
  \/ \E k \in Keys : SweepStat(k, Upkeep)
  \/ \E k \in Keys : SweepUnlink(k, Upkeep)
  \/ SweepEnd
  \/ \E p \in Procs : HookInput(p, Upkeep)
  \/ \E p \in Procs : CallGetOrCreateThread(p, Upkeep)
  \/ \E p \in Procs : GetLoad(p, Upkeep)
  \/ \E p \in Procs : GetBump(p, Upkeep)
  \/ \E p \in Procs : GetCreate(p)
  \/ \E p \in Procs : GetPersist(p, Upkeep)
  \/ \E p \in Procs : Exit(p)

SpecUpkeep == InitUpkeep /\ [][NextUpkeep]_vars

\* Lifecycle: a thread manager from its creation to destroy(), with every
\* timeout configuration, while its interval fires, over a store that one
\* call of getOrCreateThread fills.
Lifecycle ==
  [inputs |-> {}, dryRuns |-> {FALSE}, debugs |-> {FALSE}, sids |-> { <<"b">> },
   fs |-> {"ok"}, tfs |-> {"ok"}, maxInv |-> 1,
   timeouts |-> TimeoutOptions, steps |-> {1, IntervalMs},
   periods |-> MaxPeriods, offsets |-> 0..1]

NextLifecycle ==
  \/ Elapse(Lifecycle)
  \/ CreateThreadManager(Lifecycle)
  \/ IntervalFire
  \/ Destroy
  \/ SweepReaddir(Lifecycle)
  \/ \E k \in Keys : SweepStat(k, Lifecycle)
  \/ \E k \in Keys : SweepUnlink(k, Lifecycle)
  \/ SweepEnd
  \/ \E p \in Procs : CallGetOrCreateThread(p, Lifecycle)
  \/ \E p \in Procs : GetLoad(p, Lifecycle)
  \/ \E p \in Procs : GetCreate(p)
  \/ \E p \in Procs : GetPersist(p, Lifecycle)
  \/ \E p \in Procs : Exit(p)

SpecLifecycle == InitUpkeep /\ [][NextLifecycle]_vars

\* The failing-sweep environment: calls of getOrCreateThread for two
\* sessions with different keys, a manager whose timeout is one second, a
\* clock that passes the timeout in one step, and a file system whose
\* readdir, stat, unlink, reads and writes can fail.
Sweeping ==
  [inputs |-> {}, dryRuns |-> {FALSE}, debugs |-> {FALSE},
   sids |-> { <<"b">>, <<"a", "_">> }, fs |-> {"ok", "fail"}, tfs |-> {"ok"},
   maxInv |-> MaxLookups, timeouts |-> {1}, steps |-> {1001}, periods |-> 0,
   offsets |-> {0, 1001}]

\* Sweep: the initial sweep of a thread manager over the session files that
\* earlier calls of getOrCreateThread wrote.
NextSweep ==
  \/ Elapse(Sweeping)
  \/ CreateThreadManager(Sweeping)
  \/ SweepReaddir(Sweeping)
  \/ \E k \in Keys : SweepStat(k, Sweeping)
  \/ \E k \in Keys : SweepUnlink(k, Sweeping)
  \/ SweepEnd
  \/ \E p \in Procs : CallGetOrCreateThread(p, Sweeping)
  \/ \E p \in Procs : GetLoad(p, Sweeping)
  \/ \E p \in Procs : GetBump(p, Sweeping)
  \/ \E p \in Procs : GetCreate(p)
  \/ \E p \in Procs : GetPersist(p, Sweeping)
  \/ \E p \in Procs : Exit(p)

SpecSweep == InitUpkeep /\ [][NextSweep]_vars

(* -------------------------------- cli.ts ------------------------------ *)

\* The command line: with and without a channel and a token, dry runs and
\* not, --thread-timeout 1, for one session; the clock goes past the
\* timeout once, and the process ends long before the interval is due.
Cli ==
  [inputs |-> { Malformed, Input(<<"b">>, "UserPromptSubmit", TRUE, "/t"),
                Input(<<"b">>, "Stop", TRUE, "/t") },
   channels |-> { "", "C1" }, tokens |-> BOOLEAN, dryRuns |-> BOOLEAN,
   debugs |-> {FALSE}, sids |-> { <<"b">> }, fs |-> {"ok"}, tfs |-> {"ok"},
   maxInv |-> MaxCli, timeouts |-> {1}, steps |-> {1001}, periods |-> 0,
   offsets |-> {0, 1001}]

\* The action callback to its first await: the two option checks, whose
\* throw is caught by process.exit(1); a dry run goes on to read stdin
\* without a client and without a thread manager.
CliStart(p, e) ==
  /\ proc[p].pc = "idle"
  /\ started < e.maxInv
  /\ started' = started + 1
  /\ \E channel \in e.channels, token \in e.tokens, dryRun \in e.dryRuns :
       LET fatal == channel = "" \/ (~token /\ ~dryRun)
       IN proc' = [proc EXCEPT ![p] =
            [Idle EXCEPT !.entry = "cli", !.channel = channel, !.dryRun = dryRun,
                         !.err = IF fatal THEN "option required" ELSE "",
                         !.code = IF fatal THEN 1 ELSE -1,
                         !.pc = IF fatal THEN "exited"
                                ELSE IF dryRun THEN "stdin" ELSE "init"]]
  /\ UNCHANGED << aside, now, files, sentFiles, transcript, nextTs,
                  created, lastRet, turnPosts >>

\* await initializeSlackClient(token): auth.test() rejects, which ends in
\* process.exit(1), or resolves; then createThreadManager and the call of
\* processHookInput.
CliInit(p, e) ==
  /\ proc[p].pc = "init"
  /\ \E outcome \in PostOutcomes, timeoutSeconds \in e.timeouts :
       IF outcome = "ok"
       THEN /\ proc' = [proc EXCEPT ![p] = [@ EXCEPT !.pc = "stdin"]]
            /\ mgr' = [created |-> TRUE, interval |-> TRUE, createdAt |-> now,
                       nextFire |-> now + IntervalMs,
                       timeoutSeconds |-> timeoutSeconds,
                       timeoutMs |-> timeoutMs(timeoutSeconds), sweeps |-> 1]
            /\ sweep' = SweepCall(timeoutMs(timeoutSeconds))
       ELSE /\ proc' = [proc EXCEPT ![p] =
                 [@ EXCEPT !.pc = "exited", !.code = 1,
                           !.err = "Failed to initialize Slack client"]]
            /\ UNCHANGED << mgr, sweep >>
  /\ UNCHANGED << now, files, sentFiles, transcript, nextTs, started, created,
                  lastRet, turnPosts, rawLog, calc >>

\* processHookInput({ slackClient, channel, dryRun, threadTimeoutSeconds })
\* has read stdin; no debug option is passed.
CliStdin(p, e) ==
  /\ proc[p].pc = "stdin"
  /\ \E data \in e.inputs :
       proc' = [proc EXCEPT ![p] =
         Received(data, proc[p].dryRun, FALSE, proc[p].channel)]
  /\ UNCHANGED << aside, now, files, sentFiles, transcript, nextTs, started,
                  created, lastRet, turnPosts >>

\* processHookInput has settled: the finally block destroys the thread
\* manager when there is one, then process.exit(0), or process.exit(1) in
\* the catch.  The exit ends the sweep the process was running.
CliExit(p) ==
  /\ proc[p].pc \in { "done", "aborted" }
  /\ proc' = [proc EXCEPT ![p] =
       [@ EXCEPT !.pc = "exited", !.code = IF proc[p].pc = "done" THEN 0 ELSE 1]]
  /\ mgr' = IF mgr.created THEN destroy(mgr) ELSE mgr
  /\ sweep' = NoSweep
  /\ UNCHANGED << now, files, sentFiles, transcript, nextTs, started, created,
                  lastRet, turnPosts, rawLog, calc >>

\* The process is gone, and its thread manager with it.
CliReap(p) ==
  /\ proc[p].pc = "exited"
  /\ proc' = [proc EXCEPT ![p] = Idle]
  /\ mgr' = NoManager
  /\ UNCHANGED << now, files, sentFiles, transcript, nextTs, started, created,
                  lastRet, turnPosts, rawLog, sweep, calc >>

NextCli ==
  \/ Elapse(Cli)
  \/ \E p \in Procs : CliStart(p, Cli)
  \/ \E p \in Procs : CliInit(p, Cli)
  \/ \E p \in Procs : CliStdin(p, Cli)
  \/ \E p \in Procs : GetLoad(p, Cli)
  \/ \E p \in Procs : GetBump(p, Cli)
  \/ \E p \in Procs : GetCreate(p)
  \/ \E p \in Procs : GetPersist(p, Cli)
  \/ \E p \in Procs : PostPrimary(p)
  \/ \E p \in Procs : ReadLatest(p, Cli)
  \/ \E p \in Procs : PostAssistant(p)
  \/ SweepReaddir(Cli)
  \/ \E k \in Keys : SweepStat(k, Cli)
  \/ \E k \in Keys : SweepUnlink(k, Cli)
  \/ SweepEnd
  \/ \E p \in Procs : CliExit(p)
  \/ \E p \in Procs : CliReap(p)

SpecCli == Init /\ [][NextCli]_vars

\* The command line with one of two channels: real runs with a token, for
\* one session.
Channelled ==
  [inputs |-> { Input(<<"b">>, "UserPromptSubmit", TRUE, "/t"),
                Input(<<"b">>, "Stop", TRUE, "/t") },
   channels |-> { "C1", "C2" }, tokens |-> {TRUE}, dryRuns |-> {FALSE},
   debugs |-> {FALSE}, sids |-> { <<"b">> }, fs |-> {"ok"}, tfs |-> {"ok"},
   maxInv |-> MaxCli, timeouts |-> {1}, steps |-> {1001}, periods |-> 0,
   offsets |-> {0, 1001}]

\* Channel: runs of the command line for one session, each with the channel
\* of its own --channel option.
NextChannel ==
  \/ Elapse(Channelled)
  \/ \E p \in Procs : CliStart(p, Channelled)
  \/ \E p \in Procs : CliInit(p, Channelled)
  \/ \E p \in Procs : CliStdin(p, Channelled)
  \/ \E p \in Procs : GetLoad(p, Channelled)
  \/ \E p \in Procs : GetBump(p, Channelled)
  \/ \E p \in Procs : GetCreate(p)
  \/ \E p \in Procs : GetPersist(p, Channelled)
  \/ \E p \in Procs : PostPrimary(p)
  \/ \E p \in Procs : ReadLatest(p, Channelled)
  \/ \E p \in Procs : PostAssistant(p)
  \/ SweepReaddir(Channelled)
  \/ \E k \in Keys : SweepStat(k, Channelled)
  \/ \E k \in Keys : SweepUnlink(k, Channelled)
  \/ SweepEnd
  \/ \E p \in Procs : CliExit(p)
  \/ \E p \in Procs : CliReap(p)

SpecChannel == Init /\ [][NextChannel]_vars

\* Trace: calls of processHookInput with and without the debug option, in
\* dry runs and not, for one session; the appends to the raw-event log
\* succeed.
Trace ==
  [inputs |-> { Malformed, NoSessionId,
                Input(<<"b">>, "Unknown", TRUE, "/t"),
                Input(<<"b">>, "UserPromptSubmit", TRUE, "/t"),
                Input(<<"b">>, "Stop", TRUE, "/t") },
   dryRuns |-> BOOLEAN, debugs |-> BOOLEAN, sids |-> { <<"b">> },
   fs |-> {"ok"}, tfs |-> {"ok"}, maxInv |-> MaxTraces]

NextTrace ==
  \/ \E p \in Procs : HookInput(p, Trace)
  \/ \E p \in Procs : GetLoad(p, Trace)
  \/ \E p \in Procs : GetBump(p, Trace)
  \/ \E p \in Procs : GetCreate(p)
  \/ \E p \in Procs : GetPersist(p, Trace)
  \/ \E p \in Procs : PostPrimary(p)
  \/ \E p \in Procs : ReadLatest(p, Trace)
  \/ \E p \in Procs : PostAssistant(p)
  \/ \E p \in Procs : Exit(p)

SpecTrace == Init /\ [][NextTrace]_vars

\* The trace specification with calls that return: every await of
\* processHookInput and getOrCreateThread returns or throws, so no
\* pipeline waits for ever at a step after the end of its input.
SpecTraceLive ==
  /\ SpecTrace
  /\ \A p \in Procs :
       WF_vars(\/ GetLoad(p, Trace) \/ GetBump(p, Trace) \/ GetCreate(p)
               \/ GetPersist(p, Trace) \/ PostPrimary(p)
               \/ ReadLatest(p, Trace) \/ PostAssistant(p))

(* ------------------------------ properties ---------------------------- *)

\* The process has a thread handle from getOrCreateThread.
Resolved(me) == me.entry \in { "hook", "thread" } /\ me.wrote

Primaries(plog) == { n \in DOMAIN plog : plog[n].op = "primary" }

C3_AtMostOnce == \A x \in DOMAIN turnPosts : turnPosts[x] <= 1

\* C4: when an invocation for a Stop event with a transcript is done and
\* all its posts succeeded, every assistant turn with text of the transcript
\* has been posted exactly once and its hash is in the session's
\* sent-messages set.
C4_DrainedOnce ==
  \A p \in Procs :
    LET me == proc[p]
    IN /\ me.entry = "hook" /\ me.pc = "done" /\ ~me.dryRun
       /\ me.kind = "Stop" /\ me.tpath = "/t" /\ (\A n \in DOMAIN me.plog : me.plog[n].ok)
       => \A n \in DOMAIN transcript :
            transcript[n].kind = "text" =>
              /\ turnPosts[<< me.sid, transcript[n].uuid >>] = 1
              /\ hashMessage(transcript[n]) \in sentFiles[sentMessagesPath(me.sid)]

\* C5: every hash in a sent-messages set is the hash of a turn that was
\* posted successfully for a session of that directory, and a process that
\* is marking a turn has just posted that turn successfully.
C5_MarkedWerePosted ==
  /\ \A d \in SentDirs : \A h \in sentFiles[d] :
       \E s \in SessionIds :
         sentMessagesPath(s) = d /\ turnPosts[<< s, h[1] >>] >= 1
  /\ \A p \in Procs :
       LET me == proc[p]
       IN me.pc \in { "drainMarkLoad", "drainMarkSave" } =>
            /\ Len(me.plog) > 0
            /\ me.plog[Len(me.plog)].ok
            /\ me.plog[Len(me.plog)].line = me.lines[me.i].uuid

\* A drain has marked one turn and its post of a later turn was rejected.
C5_Witness ==
  \E p \in Procs :
    LET me == proc[p]
    IN /\ me.entry = "drain"
       /\ me.pc = "done"
       /\ \E n \in DOMAIN me.plog :
            /\ ~me.plog[n].ok
            /\ \A h \in sentFiles[sentMessagesPath(me.sid)] : h[1] /= me.plog[n].line
       /\ sentFiles[sentMessagesPath(me.sid)] /= {}

\* C6: a done, non-dry-run invocation that found no record has made exactly
\* one create-thread post and, after it, exactly one primary post in the
\* thread whose handle the create-thread post returned; unless the record
\* was removed since, the store holds the session's record with that handle.
C6_FreshSession ==
  \A p \in Procs :
    LET me == proc[p]
    IN me.entry = "hook" /\ me.pc = "done" /\ ~me.dryRun /\ me.loaded = NoSession =>
         /\ Cardinality(Creates(me.plog)) = 1
         /\ Cardinality(Primaries(me.plog)) = 1
         /\ \A c \in Creates(me.plog) : \A n \in Primaries(me.plog) :
              /\ c < n
              /\ me.plog[c].ts /= 0
              /\ me.plog[c].thread = 0
              /\ me.plog[n].thread = me.plog[c].ts
              /\ ~me.disturbed =>
                   /\ files[getSessionFilePath(me.sid)].exists
                   /\ loadSession(files, me.sid).threadTs = me.plog[c].ts
                   /\ loadSession(files, me.sid).sessionId = me.sid

\* A Stop event of a new session is done: three posts, the record in place.
C6_Witness ==
  \E p \in Procs :
    LET me == proc[p]
    IN /\ me.entry = "hook" /\ me.pc = "done" /\ ~me.dryRun
       /\ me.loaded = NoSession /\ ~me.disturbed
       /\ Len(me.plog) = 3
       /\ files[getSessionFilePath(me.sid)].exists

\* C7: an invocation that found a record has made no create-thread post,
\* got the record's threadTs, posts the primary message into that thread,
\* and saved a record that equals the loaded one except for lastActivity,
\* which is not smaller than before.
C7_ExistingSession ==
  \A p \in Procs :
    LET me == proc[p]
    IN me.entry = "hook" /\ me.wrote /\ me.loaded /= NoSession =>
         /\ Creates(me.plog) = {}
         /\ me.threadTs = me.loaded.threadTs
         /\ \A n \in Primaries(me.plog) : me.plog[n].thread = me.loaded.threadTs
         /\ me.saved.threadTs = me.loaded.threadTs
         /\ me.saved.channel = me.loaded.channel
         /\ me.saved.sessionId = me.loaded.sessionId
         /\ me.saved.lastActivity >= me.loaded.lastActivity

\* An event of a known session is done and the record's lastActivity grew.
C7_Witness ==
  \E p \in Procs :
    LET me == proc[p]
    IN /\ me.entry = "hook" /\ me.pc = "done" /\ me.loaded /= NoSession
       /\ Cardinality(Primaries(me.plog)) = 1
       /\ me.saved.lastActivity > me.loaded.lastActivity

\* C8: an invocation whose input is no JSON or is rejected by the schema is
\* aborted, has made no post and has written no session record.
C8_InputError ==
  \A p \in Procs :
    LET me == proc[p]
    IN me.entry = "hook" /\ Validate(me.data) /= "" =>
         /\ me.pc = "aborted"
         /\ me.err \in InputErrors
         /\ me.plog = << >>
         /\ ~me.wrote

\* A non-dry-run invocation is aborted on an object the schema rejects,
\* while the store holds a record.
C8_Witness ==
  \E p \in Procs :
    /\ proc[p].entry = "hook" /\ proc[p].pc = "aborted" /\ ~proc[p].dryRun
    /\ proc[p].data.wellFormed
    /\ proc[p].err = "Invalid hook event format"
    /\ \E k \in Keys : files[k].exists

\* The call found no record, and then had no client, or its create-thread
\* post was rejected or returned no ts.
CreationFailed(me) ==
  /\ me.entry \in { "hook", "thread" }
  /\ me.pc \notin { "idle", "resolve" }
  /\ me.loaded = NoSession
  /\ \/ ~me.client /\ ~me.dryRun
     \/ \E c \in Creates(me.plog) : ~me.plog[c].ok \/ me.plog[c].ts = 0

\* C9: a getOrCreateThread whose thread creation failed has thrown, has
\* written no session record, and the store holds no record for the session.
C9_CreationFailure ==
  \A p \in Procs :
    LET me == proc[p]
    IN CreationFailed(me) =>
         /\ me.pc = "aborted"
         /\ me.err /= ""
         /\ ~me.wrote
         /\ ~files[getSessionFilePath(me.sid)].exists

\* A create-thread post that returned no ts.
C9_Witness ==
  \E p \in Procs :
    LET me == proc[p]
    IN /\ me.pc = "aborted"
       /\ \E c \in Creates(me.plog) : me.plog[c].ok /\ me.plog[c].ts = 0

\* C10: a dry-run invocation with a valid event is done, has made no post
\* and has written no session record.
C10_DryRun ==
  \A p \in Procs :
    LET me == proc[p]
    IN me.entry = "hook" /\ me.dryRun /\ Validate(me.data) = "" =>
         /\ me.pc = "done"
         /\ me.plog = << >>
         /\ ~me.wrote

\* A dry run of a Stop event with a transcript, for a session with a record.
C10_Witness ==
  \E p \in Procs :
    LET me == proc[p]
    IN /\ me.entry = "hook" /\ me.dryRun /\ me.pc = "done"
       /\ me.kind = "Stop" /\ me.tpath = "/t"
       /\ files[getSessionFilePath(me.sid)].exists

Swept(s) ==
  \/ s.name \in sweep.doomed
  \/ \E r \in sweep.removed : r.name = s.name

C19_ActiveNeverRemoved ==
  \A r \in sweep.removed : \A s \in sweep.seen :
    s.name = r.name =>
      ~(/\ r.lastActivity > s.lastActivity
        /\ r.lastActivity - s.lastActivity < sweep.maxAge)

\* C20: while its interval is set a thread manager has started one sweep at
\* creation and one per five minutes since; every sweep has maxAge
\* timeoutSeconds * 1000, and 3600 * 1000 when timeoutSeconds is not set or
\* is 0; after destroy() no sweep is started.
C20_SweepSchedule ==
  /\ [](mgr.interval =>
          mgr.sweeps = 1 + ((now - mgr.createdAt) \div 300000)
                         - (IF now >= mgr.nextFire THEN 1 ELSE 0))
  /\ [](sweep.phase # "idle" =>
          sweep.maxAge = IF mgr.timeoutSeconds \in {Unset, 0} THEN 3600000
                         ELSE mgr.timeoutSeconds * 1000)
  /\ [][(mgr.created /\ ~mgr.interval) =>
          /\ mgr'.sweeps = mgr.sweeps
          /\ sweep'.phase = "readdir" => sweep.phase = "readdir"]_vars

\* A manager configured with 0 seconds swept twice with maxAge 3600 * 1000
\* and was destroyed; two periods after its creation no third sweep has
\* started.
C20_Witness ==
  /\ mgr.created /\ ~mgr.interval
  /\ mgr.timeoutSeconds = 0 /\ mgr.timeoutMs = 3600000
  /\ mgr.sweeps = 2
  /\ now >= mgr.createdAt + 2 * 300000

\* C20 as stated: maxAge is the configured timeout times 1000, and
\* 3600 * 1000 only when none is configured.
C20_ConfiguredTimes1000 ==
  sweep.phase # "idle" =>
    sweep.maxAge = IF mgr.timeoutSeconds = Unset THEN 3600000
                   ELSE mgr.timeoutSeconds * 1000

\* The place of a post in an invocation: the thread's first message, the
\* event message, a message made from the transcript.
PostRank(post) ==
  IF post.op = "create" THEN 0 ELSE IF post.op = "primary" THEN 1 ELSE 2

\* C14: the posts of one invocation come in the order create-thread post,
\* event post, transcript messages, with at most one of each of the first
\* two, and the transcript messages in the order of the transcript.
C14_PostOrder ==
  \A p \in Procs :
    LET plog == proc[p].plog
    IN \A i \in DOMAIN plog : \A j \in DOMAIN plog :
         i < j =>
           /\ PostRank(plog[i]) <= PostRank(plog[j])
           /\ PostRank(plog[i]) = PostRank(plog[j]) =>
                /\ PostRank(plog[i]) = 2
                /\ plog[i].line < plog[j].line

\* An invocation has posted the thread's first message, the event message
\* and the assistant response, in this order.
C14_Witness ==
  \E p \in Procs :
    LET plog == proc[p].plog
    IN /\ Len(plog) = 3
       /\ plog[1].op = "create" /\ plog[2].op = "primary"
       /\ plog[3].op = "assistant"

\* C15: an invocation that has posted the event message and is done has
\* posted a message made from the transcript exactly when the event is a
\* Stop or a SubagentStop with a transcript path.
C15_TerminalKindsDrain ==
  \A p \in Procs :
    LET me == proc[p]
    IN /\ me.entry = "hook" /\ me.pc = "done"
       /\ \E n \in DOMAIN me.plog : me.plog[n].op = "primary" /\ me.plog[n].ok
       => ((\E n \in DOMAIN me.plog : PostRank(me.plog[n]) = 2)
             <=> (me.kind \in {"Stop", "SubagentStop"} /\ me.tpath # ""))

\* C16: an invocation for a PreToolUse event resolves no thread and posts
\* nothing.
C16_PreToolUseSilent ==
  \A p \in Procs :
    LET me == proc[p]
    IN me.entry = "hook" /\ me.kind = "PreToolUse" =>
         /\ me.plog = << >>
         /\ me.pc \notin { "resolve", "bump", "create", "persist", "primary" }
         /\ ~me.wrote

\* C17: when a drain is over, every turn with text that it read and that
\* has no fingerprint in the sent-messages file was posted, successfully
\* or not, by this drain.
C17_DrainGoesOn ==
  \A p \in Procs :
    LET me == proc[p]
    IN me.entry = "drain" /\ me.pc = "done" =>
         \A n \in DOMAIN me.lines :
           /\ me.lines[n].kind = "text"
           /\ hashMessage(me.lines[n]) \notin sentFiles[sentMessagesPath(me.sid)]
           => \E m \in DOMAIN me.plog : me.plog[m].line = me.lines[n].uuid

\* What the process has achieved: a valid event, and a dry run or a
\* successful post of the event message.
Delivered(me) ==
  /\ me.entry = "hook"
  /\ Validate(me.data) = ""
  /\ me.dryRun \/ \E n \in DOMAIN me.plog : me.plog[n].op = "primary" /\ me.plog[n].ok

\* C18: the process exits with code 0 exactly when the pipeline has
\* resolved, and with code 1 otherwise, failures of the options and of the
\* client's initialisation included; when it exits, the interval of the
\* thread manager it created has been cleared.
C18_ExitCode ==
  \A p \in Procs :
    LET me == proc[p]
    IN me.pc = "exited" =>
         /\ me.code \in {0, 1}
         /\ me.code = 0 <=> Delivered(me)
         /\ mgr.created => ~mgr.interval

\* A process that created a thread manager has exited with code 0.
C18_Witness ==
  \E p \in Procs :
    /\ proc[p].pc = "exited" /\ proc[p].code = 0
    /\ mgr.created /\ ~mgr.interval /\ ~proc[p].dryRun

\* C21: a step that removes a session's record leaves neither the
\* raw-event log nor the sent-messages file of that session.
C21_ArtifactsGoWithRecord ==
  [][\A k \in Keys :
       files[k].exists /\ ~files'[k].exists =>
         /\ rawLog'[k] = 0
         /\ \A s \in SessionIds :
              getSessionFilePath(s) = k => sentFiles'[sentMessagesPath(s)] = {}]_vars

\* C22: parseHookEvent yields no event for an object with a key its kind
\* does not declare or with an unknown hook_event_name, and yields the
\* object itself for every other object that has the required keys.
C22_StrictValidation ==
  calc.fn = "parseHookEvent" =>
    LET obj == calc.arg
        known == obj.tag \in SchemaKinds
        undeclared == known /\ ~(obj.fields \subseteq Required(obj.tag) \cup Optional(obj.tag))
    IN /\ ~known \/ undeclared => calc.event = NoEvent
       /\ known /\ ~undeclared /\ Required(obj.tag) \subseteq obj.fields =>
            calc.event = obj

\* C23: formatHookEventForSlack returns a fallback text that is not empty.
C23_FallbackText ==
  calc.fn = "formatHookEventForSlack" => calc.out.text # << >>

\* C24: every formatter emits a body of at most 3000 characters unchanged
\* and a longer one as its first 3000 characters and "...".
C24_Truncation3000 ==
  /\ calc.fn \in { "formatAssistantResponseForSlack", "truncateText" }
     \/ (calc.fn = "formatHookEventForSlack"
           /\ calc.arg.kind \in { "UserPromptSubmit", "Notification" })
  => LET body == calc.arg.body
     IN calc.out.body =
          IF Len(body) <= 3000 THEN body
          ELSE SubSeq(body, 1, 3000) \o << ".", ".", "." >>

\* C25: when a drain is killed, every turn it or an earlier drain posted is
\* in the sent-messages file of the session, and no drain posts a turn that
\* was posted before.
C25_CrashKeepsDelivered ==
  [][\A p \in Procs :
       /\ proc[p].pc \in DrainPcs /\ proc'[p].pc = "idle" =>
            \A n \in 1..MaxLines :
              turnPosts'[<< proc[p].sid, n >>] > 0 =>
                \E h \in sentFiles'[sentMessagesPath(proc[p].sid)] : h[1] = n
       /\ \A x \in DOMAIN turnPosts : turnPosts'[x] <= 1]_vars

\* C26: once the invocations that raced on a new session have ended, the
\* only session file is the one of the session's key and its record holds
\* the handle of the invocation that saved last; an invocation that finds a
\* record returns the handle of the invocation that saved last before its
\* load.
C26_LastWriterWins ==
  /\ \A s \in Race.sids :
       (\A p \in RaceProcs : proc[p].pc = "idle") /\ created[s] > 0 =>
         /\ \A k \in Keys : files[k].exists <=> k = getSessionFilePath(s)
         /\ loadSession(files, s).threadTs = lastRet[s].ts
  /\ \A p \in RaceProcs :
       proc[p].pc = "done" /\ proc[p].loaded /= NoSession =>
         proc[p].threadTs = proc[p].prev.ts

\* Both invocations created a thread, the later save won, and a third
\* invocation has returned that handle.
C26_Witness ==
  /\ \A p \in RaceProcs : proc[p].pc = "idle"
  /\ created[<<"b">>] = 2
  /\ started = 3
  /\ lastRet[<<"b">>] = [ts |-> loadSession(files, <<"b">>).threadTs, creates |-> 0]

\* C27: an input that fails JSON.parse or parseHookEvent leaves the
\* raw-event log of its session as it was, with or without the debug option.
C27_CaptureAfterValidation ==
  \A p \in Procs :
    LET me == proc[p]
    IN me.entry = "hook" /\ Validate(me.data) /= "" /\ me.sid \in SessionIds =>
         rawLog[getSessionFilePath(me.sid)] = me.rawBefore

C29_TranscriptFailuresContained ==
  /\ [](\A p \in Procs :
          LET me == proc[p]
          IN /\ me.entry = "hook"
             /\ \E n \in DOMAIN me.plog : me.plog[n].op = "primary" /\ me.plog[n].ok
             => me.pc \in { "assistant", "assistantPost", "done" } /\ me.err = "")
  /\ [][\A p \in Procs :
          proc[p].pc = "assistant" /\ proc'[p].pc /= "assistant" /\ ~proc'[p].logged =>
            proc'[p].lines = IF proc[p].tpath = "/none" THEN << >>
                             ELSE SelectSeq(transcript, IsJson)]_vars

\* An invocation is done after the event post: it skipped the first line,
\* which does not parse, read the turn after it, and its assistant post was
\* rejected.
C29_Witness ==
  \E p \in Procs :
    LET me == proc[p]
    IN /\ me.entry = "hook" /\ me.pc = "done" /\ me.logged
       /\ Len(transcript) = 2 /\ transcript[1].kind = "bad"
       /\ me.lines = << transcript[2] >>
       /\ \E n \in DOMAIN me.plog : me.plog[n].op = "primary" /\ me.plog[n].ok
       /\ \E n \in DOMAIN me.plog : me.plog[n].op = "assistant" /\ ~me.plog[n].ok

\* C30: when a sweep ends, every entry it listed that ends with ".json" was
\* examined or its promise logged an error, and every entry it found stale
\* was removed unless its own promise logged an error; and no step of a
\* sweep, a readdir that fails included, changes the thread manager or
\* leaves the sweep anywhere but among its files or over.
C30_SweepGoesOn ==
  /\ [][sweep.phase = "files" /\ sweep'.phase = "idle" =>
          /\ \A x \in sweep.listed : EndsWithJson(x) =>
               \/ x.name \in sweep.errors
               \/ \E s \in sweep.seen : s.name = x.name
          /\ \A s \in sweep.seen :
               Expired(sweep.now - s.mtime, sweep.maxAge) /\ s.name \notin sweep.errors
                 => \E r \in sweep.removed : r.name = s.name]_vars
  /\ [][sweep.phase /= "idle" /\ sweep' /= sweep =>
          mgr' = mgr /\ sweep'.phase \in { "files", "idle" }]_vars

\* A sweep over two stale session files is about to end: the promise of
\* one logged an error and its file is still there, the other file was
\* removed.
C30_Witness ==
  /\ sweep.phase = "files" /\ sweep.pending = {} /\ sweep.doomed = {}
  /\ \E k \in sweep.errors : files[k].exists
  /\ \E r \in sweep.removed : r.name \notin sweep.errors /\ ~files[r.name].exists

\* C31: the sent-messages file of a session id is the file
\* "sent-messages.json" in the directory named by the sanitized id, inside
\* the storage directory.
C31_FingerprintsInNamespace ==
  calc.fn = "filePath" =>
    calc.path = StorageDir \o << sanitizeSessionId(calc.arg), << "sent-messages.json" >> >>

\* C32: an invocation whose input has ended reaches resolve() or reject();
\* a resolved invocation has no error and a rejected one has one; and once
\* it is resolved or rejected the process does nothing but end.
C32_OneTerminalState ==
  /\ \A p \in Procs :
       proc[p].pc \notin { "idle", "done", "aborted" }
         ~> proc[p].pc \in { "done", "aborted" }
  /\ [](\A p \in Procs :
          /\ proc[p].pc = "done" => proc[p].err = ""
          /\ proc[p].pc = "aborted" => proc[p].err /= "")
  /\ [][\A p \in Procs :
          proc[p].pc \in { "done", "aborted" } =>
            /\ proc'[p] = proc[p] \/ proc'[p] = Idle
            /\ files' = files /\ rawLog' = rawLog /\ turnPosts' = turnPosts]_vars

\* The second invocation was rejected after the post of its event message
\* failed in the thread the first one created.
C32_Witness ==
  \E p \in Procs :
    LET me == proc[p]
    IN /\ me.entry = "hook" /\ me.pc = "aborted" /\ started = 2
       /\ me.loaded /= NoSession
       /\ Len(me.plog) = 1 /\ me.plog[1].op = "primary" /\ ~me.plog[1].ok

\* C33: no step of a sweep removes a session file whose record has a
\* lastActivity that is no more than the sweep's maxAge before the time of
\* the step.
C33_SweepSparesBumped ==
  [][\A k \in Keys :
       sweep.phase = "files" /\ files[k].exists /\ ~files'[k].exists =>
         ~(now - Parse(files[k].content).lastActivity <= sweep.maxAge)]_vars

\* C34: the record an invocation loads, and whose handle it posts to, is
\* a record of its own session id.
C34_DistinctSessions ==
  \A p \in Procs :
    LET me == proc[p]
    IN me.loaded /= NoSession => me.loaded.sessionId = me.sid

\* C35: an invocation whose read of an existing session file failed has
\* loaded no session and does not take the existing-session branch; when it
\* has saved, it has made a create-thread post and the record holds the
\* new handle, which is not the handle returned before.
C35_UnreadableIsAbsent ==
  \A p \in Procs :
    LET me == proc[p]
    IN me.unread =>
         /\ me.loaded = NoSession
         /\ me.pc /= "bump"
         /\ me.wrote =>
              /\ Creates(me.plog) /= {}
              /\ loadSession(files, me.sid).threadTs = me.threadTs
              /\ me.threadTs /= me.prev.ts

\* The session has a second thread: an invocation that could not read the
\* record of the first has created it and overwritten the record.
C35_Witness ==
  \E p \in Procs :
    LET me == proc[p]
    IN /\ me.unread /\ me.wrote /\ me.prev /= NoRet
       /\ created[me.sid] = 2
       /\ loadSession(files, me.sid).threadTs = me.threadTs

\* C36: an invocation whose save failed is aborted, has posted no event
\* message and has written no record; when it was the save of a new
\* thread, the create-thread post was made and the record does not hold
\* its handle.
C36_SaveFailureAborts ==
  \A p \in Procs :
    LET me == proc[p]
    IN me.err \in { "Failed to save session",
                     "Failed to create thread: Failed to save session" } =>
         /\ me.pc = "aborted"
         /\ ~me.wrote
         /\ \A n \in DOMAIN me.plog : me.plog[n].op /= "primary"
         /\ me.loaded = NoSession =>
              /\ \E n \in DOMAIN me.plog : me.plog[n].op = "create" /\ me.plog[n].ok
              /\ loadSession(files, me.sid).threadTs /= me.threadTs

\* The save of the session's second thread has failed: the first thread,
\* whose save failed as well, is orphaned, and there is no record.
C36_Witness ==
  \E p \in Procs :
    LET me == proc[p]
    IN /\ me.err = "Failed to create thread: Failed to save session"
       /\ me.pc = "aborted"
       /\ created[me.sid] = 2
       /\ ~files[getSessionFilePath(me.sid)].exists

\* C37: no step removes a fingerprint from the sent-messages set of a
\* session.
C37_FingerprintsOnlyGrow ==
  [][\A d \in SentDirs : sentFiles[d] \subseteq sentFiles'[d]]_vars

\* C38: every in-thread post of an invocation that loaded a record goes to
\* the channel of that record, with that record's thread handle.
C38_PostsUseRecordChannel ==
  \A p \in Procs :
    LET me == proc[p]
    IN \A n \in DOMAIN me.plog :
         me.plog[n].op \in { "primary", "assistant" } /\ me.loaded /= NoSession =>
           /\ me.plog[n].thread = me.loaded.threadTs
           /\ me.plog[n].channel = me.loaded.channel

====
